---------------------------- MODULE Spec2Model ----------------------------
(***************************************************************************)
(* Model of python-service/app.py: the date parser, the date-context       *)
(* filter and the two aggregation handlers (calculate_sales,               *)
(* calculate_profit).                                                      *)
(*                                                                         *)
(* Strings are sequences of one-character strings, so that lower(), [:3],  *)
(* len(), int(), strptime and strftime are computed character by           *)
(* character.  A JSON scalar that may be a number or a string is a record  *)
(* [num |-> n] or [str |-> chars].  Amounts are integers (the model does   *)
(* not cover floating-point rounding).                                     *)
(***************************************************************************)
EXTENDS Integers, Sequences, FiniteSets, TLC

VARIABLES request, response

vars == <<request, response>>

---------------------------------------------------------------------------
(* Characters and strings                                                  *)

Digits == <<"0", "1", "2", "3", "4", "5", "6", "7", "8", "9">>

UpperCase == <<"A", "B", "C", "D", "E", "F", "G", "H", "I", "J", "K", "L", "M",
               "N", "O", "P", "Q", "R", "S", "T", "U", "V", "W", "X", "Y", "Z">>

LowerCase == <<"a", "b", "c", "d", "e", "f", "g", "h", "i", "j", "k", "l", "m",
               "n", "o", "p", "q", "r", "s", "t", "u", "v", "w", "x", "y", "z">>

IsDigit(c) == \E i \in 1..10 : Digits[i] = c

DigitVal(c) == CHOOSE v \in 0..9 : Digits[v + 1] = c

AllDigits(s) == Len(s) > 0 /\ \A i \in 1..Len(s) : IsDigit(s[i])

RECURSIVE DecVal(_)
DecVal(s) ==
    IF s = <<>> THEN 0
    ELSE DecVal(SubSeq(s, 1, Len(s) - 1)) * 10 + DigitVal(s[Len(s)])

Pad2(n) == <<Digits[((n \div 10) % 10) + 1], Digits[(n % 10) + 1]>>

Pad4(n) == Pad2(n \div 100) \o Pad2(n % 100)

\* str.lower()
lower_chr(c) ==
    IF \E i \in 1..26 : UpperCase[i] = c
    THEN LowerCase[CHOOSE i \in 1..26 : UpperCase[i] = c]
    ELSE c

lower(s) == [i \in 1..Len(s) |-> lower_chr(s[i])]

\* s[:n]
Prefix(s, n) == SubSeq(s, 1, IF Len(s) < n THEN Len(s) ELSE n)

\* c in s
Contains(s, c) == \E i \in 1..Len(s) : s[i] = c

Num(n) == [num |-> n]
Str(s) == [str |-> s]
IsStr(v) == "str" \in DOMAIN v
IsInt(v) == "num" \in DOMAIN v

---------------------------------------------------------------------------
(* Calendar                                                                *)

MonthAbbr == <<<<"J", "a", "n">>, <<"F", "e", "b">>, <<"M", "a", "r">>,
               <<"A", "p", "r">>, <<"M", "a", "y">>, <<"J", "u", "n">>,
               <<"J", "u", "l">>, <<"A", "u", "g">>, <<"S", "e", "p">>,
               <<"O", "c", "t">>, <<"N", "o", "v">>, <<"D", "e", "c">>>>

IsLeap(y) == (y % 4 = 0 /\ y % 100 # 0) \/ y % 400 = 0

DaysInMonth(y, m) ==
    IF m = 2 THEN (IF IsLeap(y) THEN 29 ELSE 28)
    ELSE IF m \in {4, 6, 9, 11} THEN 30 ELSE 31

\* The three results parse_date can give.  A Timestamp carries a calendar date.
None == [kind |-> "None", year |-> 0, month |-> 0, day |-> 0]
NaT == [kind |-> "NaT", year |-> 0, month |-> 0, day |-> 0]
Timestamp(y, m, d) == [kind |-> "Timestamp", year |-> y, month |-> m, day |-> d]

\* pd.isna / dropna: None and NaT are both missing values.
IsTimestamp(p) == p.kind = "Timestamp"

\* The century of a two-digit year under %y: 00..68 are 20xx, 69..99 are 19xx.
CenturyPivot(yy) == IF yy <= 68 THEN 2000 + yy ELSE 1900 + yy

\* pd.to_datetime(s, format='%d-%b-%y', errors='coerce'): the whole string must
\* be <day>-<month abbreviation>-<two digits>; the day is one or two digits,
\* 1..31, the abbreviation matches case-insensitively, and a day that the month
\* does not have gives NaT.
strptime_dby(s) ==
    LET hs == {i \in 1..Len(s) : s[i] = "-"}
        h1 == CHOOSE i \in hs : \A j \in hs : i <= j
        dd == SubSeq(s, 1, h1 - 1)
        mon == lower(SubSeq(s, h1 + 1, h1 + 3))
        yy == SubSeq(s, h1 + 5, h1 + 6)
        shape == /\ hs # {}
                 /\ Len(s) = h1 + 6
                 /\ s[h1 + 4] = "-"
                 /\ Len(dd) \in {1, 2}
                 /\ AllDigits(dd)
                 /\ AllDigits(yy)
                 /\ \E m \in 1..12 : lower(MonthAbbr[m]) = mon
    IN  IF ~shape THEN NaT
        ELSE LET d == DecVal(dd)
                 m == CHOOSE k \in 1..12 : lower(MonthAbbr[k]) = mon
                 y == CenturyPivot(DecVal(yy))
             IN  IF d >= 1 /\ d <= DaysInMonth(y, m) THEN Timestamp(y, m, d)
                 ELSE NaT

\* pd.to_datetime(s, errors='coerce') on a string without a hyphen.  Of the
\* formats the lenient parser accepts, the model covers YYYY/MM/DD; every other
\* hyphen-free string of the model's inputs is one it rejects.
to_datetime_generic(s) ==
    LET shape == /\ Len(s) = 10
                 /\ s[5] = "/" /\ s[8] = "/"
                 /\ AllDigits(SubSeq(s, 1, 4))
                 /\ AllDigits(SubSeq(s, 6, 7))
                 /\ AllDigits(SubSeq(s, 9, 10))
    IN  IF ~shape THEN NaT
        ELSE LET y == DecVal(SubSeq(s, 1, 4))
                 m == DecVal(SubSeq(s, 6, 7))
                 d == DecVal(SubSeq(s, 9, 10))
             IN  IF m \in 1..12 /\ d >= 1 /\ d <= DaysInMonth(y, m)
                 THEN Timestamp(y, m, d)
                 ELSE NaT

parse_date(date_str) ==
    IF date_str = <<>> THEN None
    ELSE IF Contains(date_str, "-") THEN strptime_dby(date_str)
    ELSE to_datetime_generic(date_str)

\* ts.strftime('%d-%b-%y')
strftime_dby(ts) ==
    Pad2(ts.day) \o <<"-">> \o MonthAbbr[ts.month] \o <<"-">> \o Pad2(ts.year % 100)

\* str(period) of a monthly period: "YYYY-MM"
month_key(ts) == Pad4(ts.year) \o <<"-">> \o Pad2(ts.month)

\* Timestamps compare by calendar order.
DateLE(a, b) ==
    \/ a.year < b.year
    \/ a.year = b.year /\ a.month < b.month
    \/ a.year = b.year /\ a.month = b.month /\ a.day <= b.day

---------------------------------------------------------------------------
(* The date parser on its own: parse a string, format the result the way   *)
(* date_range does, parse again.                                           *)

NoResponse == [kind |-> "none"]

SampleDays == {1, 15, 28, 29, 30, 31}
SampleYY == {0, 23, 24, 68, 69, 99}

DMY(d, m, yy) == Pad2(d) \o <<"-">> \o MonthAbbr[m] \o <<"-">> \o Pad2(yy)

YMD(y, m, d) == Pad4(y) \o <<"/">> \o Pad2(m) \o <<"/">> \o Pad2(d)

OddDateStrings ==
    { <<>>,
      <<"-">>,
      <<"n", "/", "a">>,
      <<"5", "-", "o", "c", "t", "-", "2", "3">>,
      <<"0", "0", "-", "J", "a", "n", "-", "2", "3">>,
      <<"3", "2", "-", "J", "a", "n", "-", "2", "3">>,
      <<"1", "5", "-", "O", "c", "t", "-", "2", "0", "2", "3">>,
      <<"1", "5", "-", "O", "c", "t", "o", "b", "e", "r", "-", "2", "3">>,
      <<"2", "0", "2", "3", "-", "1", "0", "-", "1", "5">>,
      YMD(2023, 10, 15), YMD(2070, 1, 1), YMD(1950, 12, 31), YMD(2023, 2, 30) }

DateStrings ==
    {DMY(d, m, yy) : d \in SampleDays, m \in 1..12, yy \in SampleYY}
        \cup OddDateStrings

ParseRequest(s, o) == [op |-> "parse_date", date_str |-> s, origin |-> o]

InitParse ==
    /\ request \in {ParseRequest(s, None) : s \in DateStrings}
    /\ response = NoResponse

ParseDate ==
    /\ request.op = "parse_date"
    /\ response = NoResponse
    /\ response' = parse_date(request.date_str)
    /\ UNCHANGED request

\* date_range's formatting of a parsed date, handed back to the parser.
FormatDate ==
    /\ request.op = "parse_date"
    /\ response # NoResponse
    /\ IsTimestamp(response)
    /\ request.origin = None
    /\ request' = ParseRequest(strftime_dby(response), response)
    /\ response' = NoResponse

NextParse == ParseDate \/ FormatDate

SpecParse == InitParse /\ [][NextParse]_vars

---------------------------------------------------------------------------
(* Python and pandas conversions                                           *)

\* int(s) on a string: an optional sign and decimal digits; anything else
\* raises ValueError.
py_int_ok(s) ==
    IF Len(s) > 0 /\ s[1] \in {"-", "+"} THEN AllDigits(Tail(s)) ELSE AllDigits(s)

py_int(s) ==
    IF s[1] = "-" THEN 0 - DecVal(Tail(s))
    ELSE IF s[1] = "+" THEN DecVal(Tail(s))
    ELSE DecVal(s)

\* Mutant of to_numeric_fillna: a string amount is never read as a number.
to_numeric_numbers_only(a) == IF IsInt(a) THEN a.num ELSE 0

\* pd.to_numeric(x, errors='coerce').fillna(0) on one cell: a number is kept, a
\* string that reads as a number is converted, everything else becomes NaN and
\* then 0.
to_numeric_fillna(a) ==
    IF IsInt(a) THEN a.num
    ELSE IF IsStr(a) /\ py_int_ok(a.str) THEN py_int(a.str)
    ELSE 0

RECURSIVE SumAmount(_)
SumAmount(rows) ==
    IF rows = <<>> THEN 0 ELSE Head(rows).amount + SumAmount(Tail(rows))

\* pd.DataFrame(records) with df['amount'] made numeric: one row per record.
to_frame(records) ==
    [i \in 1..Len(records) |->
        [f \in DOMAIN records[i] |->
            IF f = "amount" THEN to_numeric_fillna(records[i].amount)
            ELSE records[i][f]]]

---------------------------------------------------------------------------
(* filter_by_date_context                                                  *)

EmptyDict == <<>>

HasKey(obj, k) == k \in DOMAIN obj

\* dict.get(k) used as a condition: a missing key and False are falsy, ...
get_flag(obj, k) == HasKey(obj, k) /\ obj[k]

\* ... and so is a missing key or an empty list.
get_list_nonempty(obj, k) == HasKey(obj, k) /\ Len(obj[k]) > 0

month_map == <<<<"j", "a", "n">>, <<"f", "e", "b">>, <<"m", "a", "r">>,
               <<"a", "p", "r">>, <<"m", "a", "y">>, <<"j", "u", "n">>,
               <<"j", "u", "l">>, <<"a", "u", "g">>, <<"s", "e", "p">>,
               <<"o", "c", "t">>, <<"n", "o", "v">>, <<"d", "e", "c">>>>

\* month_map.get(key): 0 stands for None.
month_map_get(key) ==
    IF \E i \in 1..12 : month_map[i] = key
    THEN CHOOSE i \in 1..12 : month_map[i] = key
    ELSE 0

\* Mutant of month_numbers: the lookup's None is appended like a month number.
RECURSIVE month_numbers_unchecked(_)
month_numbers_unchecked(months) ==
    IF months = <<>> THEN <<>>
    ELSE LET month == Head(months)
             rest == month_numbers_unchecked(Tail(months))
         IN  IF IsStr(month)
             THEN <<month_map_get(Prefix(lower(month.str), 3))>> \o rest
             ELSE IF IsInt(month) THEN <<month.num>> \o rest
             ELSE rest

\* Mutant of month_numbers: an integer outside 1..12 is discarded.
RECURSIVE month_numbers_range_checked(_)
month_numbers_range_checked(months) ==
    IF months = <<>> THEN <<>>
    ELSE LET month == Head(months)
             rest == month_numbers_range_checked(Tail(months))
         IN  IF IsStr(month)
             THEN LET month_num == month_map_get(Prefix(lower(month.str), 3))
                  IN  IF month_num # 0 THEN <<month_num>> \o rest ELSE rest
             ELSE IF IsInt(month) /\ month.num \in 1..12 THEN <<month.num>> \o rest
             ELSE rest

RECURSIVE month_numbers(_)
month_numbers(months) ==
    IF months = <<>> THEN <<>>
    ELSE LET month == Head(months)
             rest == month_numbers(Tail(months))
         IN  IF IsStr(month)
             THEN LET month_num == month_map_get(Prefix(lower(month.str), 3))
                  IN  IF month_num # 0 THEN <<month_num>> \o rest ELSE rest
             ELSE IF IsInt(month) THEN <<month.num>> \o rest
             ELSE rest

\* The loop over date_context['years'] raises ValueError when int() does.
years_raise(years) ==
    \E i \in 1..Len(years) : IsStr(years[i]) /\ ~py_int_ok(years[i].str)

\* Mutant of year_numbers: a two-character year is not moved to the 2000s.
RECURSIVE year_numbers_no_century(_)
year_numbers_no_century(years) ==
    IF years = <<>> THEN <<>>
    ELSE LET year == Head(years)
             rest == year_numbers_no_century(Tail(years))
         IN  IF IsStr(year) THEN <<py_int(year.str)>> \o rest
             ELSE IF IsInt(year) THEN <<year.num>> \o rest
             ELSE rest

RECURSIVE year_numbers(_)
year_numbers(years) ==
    IF years = <<>> THEN <<>>
    ELSE LET year == Head(years)
             rest == year_numbers(Tail(years))
         IN  IF IsStr(year)
             THEN (IF Len(year.str) = 2
                   THEN <<2000 + py_int(year.str)>> \o rest
                   ELSE <<py_int(year.str)>> \o rest)
             ELSE IF IsInt(year) THEN <<year.num>> \o rest
             ELSE rest

isin(x, list) == \E i \in 1..Len(list) : list[i] = x

Frame(rows) == [ok |-> TRUE, rows |-> rows, error |-> "-"]
Raise(e) == [ok |-> FALSE, rows |-> <<>>, error |-> e]

\* df['parsed_date'] = df['date'].apply(parse_date)
assign_parsed_date(df) ==
    [i \in 1..Len(df) |->
        [f \in DOMAIN df[i] \cup {"parsed_date"} |->
            IF f = "parsed_date" THEN parse_date(df[i].date) ELSE df[i][f]]]

\* df.dropna(subset=['parsed_date']): None and NaT are both missing values.
dropna_parsed_date(df) == SelectSeq(df, LAMBDA row : IsTimestamp(row.parsed_date))

\* The parsed_date column has object dtype when every value is None, and is a
\* datetime column as soon as one value is a Timestamp or NaT.  The .dt
\* accessor of an object column raises AttributeError.
object_dtype(df) == \A i \in 1..Len(df) : df[i].parsed_date = None

\* The outcome is the filtered frame or the exception raised.  dt_raises says
\* whether the pandas in use refuses .dt on an object column; the handlers keep
\* both outcomes.
filter_by_date_context(df, date_context, dt_raises) ==
    IF DOMAIN date_context = {} \/ ~get_flag(date_context, "isDateSpecific")
    THEN Frame(df)
    ELSE
    LET with_parsed == assign_parsed_date(df)
        no_dt == dt_raises /\ object_dtype(with_parsed)
        parsed == dropna_parsed_date(with_parsed)
        mnums == IF get_list_nonempty(date_context, "months")
                 THEN month_numbers(date_context.months) ELSE <<>>
        by_month == IF mnums # <<>>
                    THEN SelectSeq(parsed, LAMBDA row : isin(row.parsed_date.month, mnums))
                    ELSE parsed
        has_years == get_list_nonempty(date_context, "years")
        ynums == IF has_years THEN year_numbers(date_context.years) ELSE <<>>
        by_year == IF ynums # <<>>
                   THEN SelectSeq(by_month, LAMBDA row : isin(row.parsed_date.year, ynums))
                   ELSE by_month
    IN  IF mnums # <<>> /\ no_dt THEN Raise("AttributeError")
        ELSE IF has_years /\ years_raise(date_context.years) THEN Raise("ValueError")
        ELSE IF ynums # <<>> /\ no_dt THEN Raise("AttributeError")
        ELSE Frame(by_year)

---------------------------------------------------------------------------
(* calculate_sales                                                         *)

\* The number of customers kept by head(10).
TopN == 10

Summary(fields) == [kind |-> "summary", status |-> 200, body |-> fields]
ErrorResponse(e) == [kind |-> "error", status |-> 500, body |-> [error |-> e]]

\* Mutant of sales_monthly_breakdown: every month counts the whole frame.
sales_monthly_breakdown_frame_count(df_with_dates) ==
    LET keys == {month_key(df_with_dates[i].parsed_date) : i \in 1..Len(df_with_dates)}
        group(k) == SelectSeq(df_with_dates, LAMBDA row : month_key(row.parsed_date) = k)
    IN  [k \in keys |-> [amount |-> SumAmount(group(k)), count |-> Len(df_with_dates)]]

\* groupby(parsed_date.dt.to_period('M')): one entry per calendar month, keyed
\* by str(period), with the sum of the amounts and the number of rows.
sales_monthly_breakdown(df_with_dates) ==
    LET keys == {month_key(df_with_dates[i].parsed_date) : i \in 1..Len(df_with_dates)}
        group(k) == SelectSeq(df_with_dates, LAMBDA row : month_key(row.parsed_date) = k)
    IN  [k \in keys |-> [amount |-> SumAmount(group(k)), count |-> Len(group(k))]]

\* groupby('account')['amount'].sum(): the series of (account, sum) pairs;
\* rows without an account are left out.
account_sums(df) ==
    LET with_account == SelectSeq(df, LAMBDA row : HasKey(row, "account"))
        keys == {with_account[i].account : i \in 1..Len(with_account)}
    IN  { <<k, SumAmount(SelectSeq(with_account, LAMBDA row : row.account = k))>> :
          k \in keys }

\* sort_values(ascending=False): every order of the series in which the sums
\* do not increase (the default sort promises no order among equal sums).
RECURSIVE sort_values_descending(_)
sort_values_descending(series) ==
    IF series = {} THEN {<<>>}
    ELSE UNION { {<<e>> \o rest : rest \in sort_values_descending(series \ {e})} :
                 e \in {x \in series : \A y \in series : x[2] >= y[2]} }

\* Mutant of head: nothing is cut off.
head_all(order, n) == order

\* head(n)
head(order, n) == Prefix(order, n)

\* The possible customer_breakdown dicts, each as its (key, value) pairs in
\* insertion order.
customer_breakdowns(records, df) ==
    IF \E i \in 1..Len(records) : HasKey(records[i], "account")
    THEN {head(o, TopN) : o \in sort_values_descending(account_sums(df))}
    ELSE {<<>>}

min_date(rows) ==
    LET ds == {rows[i].parsed_date : i \in 1..Len(rows)}
    IN  CHOOSE d \in ds : \A e \in ds : DateLE(d, e)

max_date(rows) ==
    LET ds == {rows[i].parsed_date : i \in 1..Len(rows)}
    IN  CHOOSE d \in ds : \A e \in ds : DateLE(e, d)

NoData == <<"N", "o", " ", "d", "a", "t", "a">>
NoDates == <<"N", "o", " ", "d", "a", "t", "e", "s">>

sales_date_range(df_with_dates) ==
    IF df_with_dates = <<>> THEN NoDates
    ELSE strftime_dby(min_date(df_with_dates)) \o <<" ", "t", "o", " ">>
            \o strftime_dby(max_date(df_with_dates))

\* data.get('date_context', {}): a request without the key and one with an
\* empty object are the same to the handlers.
get_date_context(data) ==
    IF HasKey(data, "date_context") THEN data.date_context ELSE EmptyDict

\* The responses calculate_sales can give to one request.
calculate_sales(data) ==
    IF data.sales_data = <<>>
    THEN { Summary([total_amount |-> 0, voucher_count |-> 0,
                    monthly_breakdown |-> <<>>, customer_breakdown |-> <<>>,
                    date_range |-> NoData]) }
    ELSE UNION {
        LET filtered == filter_by_date_context(to_frame(data.sales_data),
                                               get_date_context(data), dt_raises)
            df == filtered.rows
            df_with_dates == dropna_parsed_date(assign_parsed_date(df))
        IN  IF ~filtered.ok THEN {ErrorResponse(filtered.error)}
            ELSE { Summary([total_amount |-> SumAmount(df),
                            voucher_count |-> Len(df),
                            monthly_breakdown |-> sales_monthly_breakdown(df_with_dates),
                            customer_breakdown |-> cb,
                            date_range |-> sales_date_range(df_with_dates)]) :
                   cb \in customer_breakdowns(data.sales_data, df) }
        : dt_raises \in BOOLEAN }

CalculateSales ==
    /\ request.op = "sales"
    /\ response = NoResponse
    /\ response' \in calculate_sales(request)
    /\ UNCHANGED request

---------------------------------------------------------------------------
(* Requests to calculate_sales                                             *)

MaxRecords == 3

Chars_100 == <<"1", "0", "0">>
Chars_abc == <<"a", "b", "c">>

SaleRecords ==
    { [date |-> DMY(1, 1, 23), amount |-> Str(Chars_100), account |-> "A"],
      [date |-> DMY(1, 2, 23), amount |-> Num(50), account |-> "B"],
      [date |-> DMY(1, 1, 24), amount |-> Num(7), account |-> "A"],
      [date |-> <<>>, amount |-> Num(30), account |-> "C"],
      [date |-> DMY(31, 2, 23), amount |-> Num(4), account |-> "B"],
      [date |-> DMY(1, 12, 99), amount |-> Str(Chars_abc)] }

MonthLists ==
    { <<>>,
      <<Str(<<"j", "a", "n">>)>>,
      <<Str(<<"F", "e", "b", "r", "u", "a", "r", "y">>), Num(1)>>,
      <<Str(<<"x", "y", "z">>)>>,
      <<Str(<<"j", "a">>), Str(<<>>)>>,
      <<Num(13)>>,
      <<Num(0)>>,
      <<Str(<<"x", "y", "z">>), Num(13)>>,
      <<Num(12)>> }

YearLists ==
    { <<>>,
      <<Str(<<"2", "3">>)>>,
      <<Str(<<"2", "0", "2", "4">>)>>,
      <<Num(2023), Str(<<"2", "4">>)>>,
      <<Str(<<"9", "9">>)>>,
      <<Num(1999)>>,
      <<Str(<<"a", "b", "c">>)>>,
      <<Num(2023), Str(<<"x", "x">>)>> }

\* The lists used where months and years are given together.
BothMonthLists ==
    { <<Str(<<"j", "a", "n">>)>>,
      <<Str(<<"x", "y", "z">>)>>,
      <<Str(<<"F", "e", "b", "r", "u", "a", "r", "y">>), Num(1)>> }

BothYearLists ==
    { <<Str(<<"2", "3">>)>>,
      <<Num(2023), Str(<<"2", "4">>)>>,
      <<Str(<<"a", "b", "c">>)>> }

DateContexts ==
    { [isDateSpecific |-> TRUE],
      [isDateSpecific |-> FALSE],
      [months |-> <<Str(<<"j", "a", "n">>)>>],
      [isDateSpecific |-> FALSE, months |-> <<Str(<<"j", "a", "n">>)>>,
       years |-> <<Str(<<"a", "b", "c">>)>>] }
    \cup {[isDateSpecific |-> TRUE, months |-> m] : m \in MonthLists}
    \cup {[isDateSpecific |-> TRUE, years |-> y] : y \in YearLists}
    \cup {[isDateSpecific |-> TRUE, months |-> m, years |-> y] :
            m \in BothMonthLists, y \in BothYearLists}

SalesLists == UNION {[1..n -> SaleRecords] : n \in 0..MaxRecords}

SalesRequests ==
    {[op |-> "sales", sales_data |-> sd] : sd \in SalesLists}
    \cup {[op |-> "sales", sales_data |-> sd, date_context |-> dc] :
            sd \in SalesLists, dc \in DateContexts}

InitSales ==
    /\ request \in SalesRequests
    /\ response = NoResponse

SpecSales == InitSales /\ [][CalculateSales]_vars

---------------------------------------------------------------------------
(* Requests to calculate_sales with many customers                         *)

MaxAccounts == 12

Account(a) == <<"A">> \o Pad2(a)

\* The amounts of the accounts: increasing, decreasing, with equal sums in
\* groups of two and three, and of both signs.
AmountPattern(p, a, n) ==
    CASE p = 1 -> a
      [] p = 2 -> n + 1 - a
      [] p = 3 -> (a * 7) % 5
      [] p = 4 -> a \div 2
      [] OTHER -> ((a * 5) % 7) - 3

CustomerRecord(p, a, n) ==
    [date |-> IF a % 7 = 0 THEN DMY(1, 2, 23) ELSE DMY(1, 1, 23),
     amount |-> Num(AmountPattern(p, a, n)),
     account |-> Account(a)]

\* One more record: of the first, the last or a new account, or of none.
ExtraRecords(n) ==
    {[date |-> DMY(1, 1, 23), amount |-> Num(v), account |-> Account(a)] :
        v \in {5, -4}, a \in {1, n + 1} \cup ({n} \ {0})}
    \cup {[date |-> DMY(1, 1, 23), amount |-> Num(9)]}

CustomerLists ==
    UNION { LET base == [a \in 1..n |-> CustomerRecord(p, a, n)]
            IN  {base} \cup {base \o <<x>> : x \in ExtraRecords(n)}
            : n \in 0..MaxAccounts, p \in 1..5 }

CustomerRequests ==
    {[op |-> "sales", sales_data |-> sd] : sd \in CustomerLists}
    \cup {[op |-> "sales", sales_data |-> sd,
           date_context |-> [isDateSpecific |-> TRUE,
                             months |-> <<Str(<<"j", "a", "n">>)>>]] :
            sd \in CustomerLists}

InitCustomers ==
    /\ request \in CustomerRequests
    /\ response = NoResponse

SpecCustomers == InitCustomers /\ [][CalculateSales]_vars

---------------------------------------------------------------------------
(* calculate_profit                                                        *)

\* data.get(key, [])
get_records(data, key) == IF HasKey(data, key) THEN data[key] ELSE <<>>

\* Mutant of net_profit: the expenses are added.
net_profit_added(total_revenue, total_expenses) == total_revenue + total_expenses

\* net_profit = total_revenue - total_expenses
net_profit(total_revenue, total_expenses) == total_revenue - total_expenses

\* all_data: the rows of a frame as date, amount and type.
tagged(df, type) ==
    [i \in 1..Len(df) |-> [date |-> df[i].date, amount |-> df[i].amount, type |-> type]]

\* Mutant of profit_monthly_breakdown: the rows are grouped by month only, so
\* the revenue of a month takes in its expenses.
profit_monthly_breakdown_untyped(combined_df) ==
    LET keys == {month_key(combined_df[i].parsed_date) : i \in 1..Len(combined_df)}
        month(k) == SumAmount(SelectSeq(combined_df,
                        LAMBDA row : month_key(row.parsed_date) = k))
        cell(k, type) ==
            SumAmount(SelectSeq(combined_df,
                LAMBDA row : month_key(row.parsed_date) = k /\ row.type = type))
    IN  [k \in keys |->
            [revenue |-> month(k),
             expense |-> cell(k, "expense"),
             profit |-> month(k) - cell(k, "expense")]]

\* groupby([period, 'type'])['amount'].sum().unstack(fill_value=0): for each
\* calendar month of the combined rows, the revenue sum, the expense sum (0
\* for a type the month does not have) and their difference.
profit_monthly_breakdown(combined_df) ==
    LET keys == {month_key(combined_df[i].parsed_date) : i \in 1..Len(combined_df)}
        cell(k, type) ==
            SumAmount(SelectSeq(combined_df,
                LAMBDA row : month_key(row.parsed_date) = k /\ row.type = type))
    IN  [k \in keys |->
            [revenue |-> cell(k, "revenue"),
             expense |-> cell(k, "expense"),
             profit |-> cell(k, "revenue") - cell(k, "expense")]]

\* The responses calculate_profit can give to one request.
calculate_profit(data) ==
    {   LET revenue_data == get_records(data, "revenue_data")
            expense_data == get_records(data, "expense_data")
            date_context == get_date_context(data)
            revenue == IF revenue_data # <<>>
                       THEN filter_by_date_context(to_frame(revenue_data),
                                                   date_context, dt_raises)
                       ELSE Frame(<<>>)
            expense == IF expense_data # <<>>
                       THEN filter_by_date_context(to_frame(expense_data),
                                                   date_context, dt_raises)
                       ELSE Frame(<<>>)
            revenue_df == revenue.rows
            expense_df == expense.rows
            total_revenue == SumAmount(revenue_df)
            total_expenses == SumAmount(expense_df)
            all_data == tagged(revenue_df, "revenue") \o tagged(expense_df, "expense")
            combined_df == dropna_parsed_date(assign_parsed_date(all_data))
        IN  IF ~revenue.ok THEN ErrorResponse(revenue.error)
            ELSE IF ~expense.ok THEN ErrorResponse(expense.error)
            ELSE Summary([total_revenue |-> total_revenue,
                          total_expenses |-> total_expenses,
                          net_profit |-> net_profit(total_revenue, total_expenses),
                          monthly_breakdown |-> profit_monthly_breakdown(combined_df),
                          revenue_entries |-> Len(revenue_df),
                          expense_entries |-> Len(expense_df)])
        : dt_raises \in BOOLEAN }

CalculateProfit ==
    /\ request.op = "profit"
    /\ response = NoResponse
    /\ response' \in calculate_profit(request)
    /\ UNCHANGED request

---------------------------------------------------------------------------
(* Requests to calculate_profit                                            *)

MaxEntries == 2

Chars_500 == <<"5", "0", "0">>

RevenueRecords ==
    { [date |-> DMY(1, 1, 23), amount |-> Str(Chars_500)],
      [date |-> DMY(15, 2, 23), amount |-> Num(40)],
      [date |-> <<>>, amount |-> Num(7)] }

ExpenseRecords ==
    { [date |-> DMY(1, 1, 23), amount |-> Num(200)],
      [date |-> DMY(1, 1, 24), amount |-> Num(60)],
      [date |-> DMY(30, 2, 23), amount |-> Num(3)] }

ProfitContexts ==
    { [isDateSpecific |-> TRUE],
      [isDateSpecific |-> FALSE, months |-> <<Str(<<"j", "a", "n">>)>>],
      [isDateSpecific |-> TRUE, months |-> <<Str(<<"J", "A", "N">>)>>],
      [isDateSpecific |-> TRUE, months |-> <<Str(<<"x", "y", "z">>)>>],
      [isDateSpecific |-> TRUE, months |-> <<Num(13)>>],
      [isDateSpecific |-> TRUE, years |-> <<Str(<<"2", "3">>)>>],
      [isDateSpecific |-> TRUE, years |-> <<Num(2024)>>],
      [isDateSpecific |-> TRUE, years |-> <<Str(<<"a", "b", "c">>)>>],
      [isDateSpecific |-> TRUE, months |-> <<Num(1), Num(2)>>,
       years |-> <<Str(<<"2", "0", "2", "3">>)>>] }

RevenueLists == UNION {[1..n -> RevenueRecords] : n \in 0..MaxEntries}
ExpenseLists == UNION {[1..n -> ExpenseRecords] : n \in 0..MaxEntries}

ProfitRequests ==
    {[op |-> "profit", revenue_data |-> r, expense_data |-> e] :
        r \in RevenueLists, e \in ExpenseLists}
    \cup {[op |-> "profit", revenue_data |-> r] : r \in RevenueLists}
    \cup {[op |-> "profit", expense_data |-> e] : e \in ExpenseLists}
    \cup {[op |-> "profit", revenue_data |-> r, expense_data |-> e, date_context |-> dc] :
            r \in RevenueLists, e \in ExpenseLists, dc \in ProfitContexts}

InitProfit ==
    /\ request \in ProfitRequests
    /\ response = NoResponse

SpecProfit == InitProfit /\ [][CalculateProfit]_vars

---------------------------------------------------------------------------
(* Properties of calculate_sales                                           *)

\* What the properties call the amount of a record: its number, the value of
\* a string of digits, and 0 for any other string.
CoercedAmount(r) ==
    IF IsInt(r.amount) THEN r.amount.num
    ELSE IF AllDigits(r.amount.str) THEN DecVal(r.amount.str)
    ELSE 0

RECURSIVE AmountOver(_, _)
AmountOver(records, idx) ==
    IF idx = {} THEN 0
    ELSE LET i == CHOOSE j \in idx : TRUE
         IN  CoercedAmount(records[i]) + AmountOver(records, idx \ {i})

Indices(records) == 1..Len(records)

Parseable(r) == parse_date(r.date).kind = "Timestamp"

Answered(op) == request.op = op /\ response # NoResponse

IsSummary == response.kind = "summary"

FilterActive ==
    /\ HasKey(request, "date_context")
    /\ HasKey(request.date_context, "isDateSpecific")
    /\ request.date_context.isDateSpecific

Recognized(entry) ==
    IsStr(entry) /\ \E m \in 1..12 : Prefix(lower(entry.str), 3) = lower(MonthAbbr[m])

\* The normalized month set of a date context.
MonthSet(dc) ==
    IF ~HasKey(dc, "months") THEN {}
    ELSE {m \in 1..12 : \E i \in 1..Len(dc.months) :
                IsStr(dc.months[i])
                /\ Prefix(lower(dc.months[i].str), 3) = lower(MonthAbbr[m])}
         \cup {dc.months[i].num : i \in {j \in 1..Len(dc.months) : IsInt(dc.months[j])}}

\* The normalized year set of a date context (of its integers and of its
\* strings of digits).
YearSet(dc) ==
    IF ~HasKey(dc, "years") THEN {}
    ELSE {(IF Len(dc.years[i].str) = 2 THEN 2000 ELSE 0) + DecVal(dc.years[i].str) :
                i \in {j \in 1..Len(dc.years) :
                            IsStr(dc.years[j]) /\ AllDigits(dc.years[j].str)}}
         \cup {dc.years[i].num : i \in {j \in 1..Len(dc.years) : IsInt(dc.years[j])}}

\* The records the date filter is to keep.
Kept(records, dc) ==
    LET months == MonthSet(dc)
        years == YearSet(dc)
    IN  {i \in Indices(records) :
            LET p == parse_date(records[i].date)
            IN  /\ p.kind = "Timestamp"
                /\ months = {} \/ p.month \in months
                /\ years = {} \/ p.year \in years}

\* C1: with a non-empty record list and no active date filter, total_amount is
\* the sum of the coerced amounts of all the input records and voucher_count is
\* their number, records with an unparseable date included.
C1_TotalsWithoutFilter ==
    (Answered("sales") /\ request.sales_data # <<>> /\ ~FilterActive)
        => /\ IsSummary
           /\ response.body.total_amount
                = AmountOver(request.sales_data, Indices(request.sales_data))
           /\ response.body.voucher_count = Len(request.sales_data)

\* C1's case: an inactive date context that names months, a record whose date
\* does not parse and a record whose amount is not numeric.
C1_Witness ==
    /\ Answered("sales") /\ ~FilterActive
    /\ HasKey(request, "date_context")
    /\ HasKey(request.date_context, "months")
    /\ \E i \in Indices(request.sales_data) : ~Parseable(request.sales_data[i])
    /\ \E i \in Indices(request.sales_data) :
            /\ IsStr(request.sales_data[i].amount)
            /\ ~AllDigits(request.sales_data[i].amount.str)
    /\ response.body.total_amount > 0

\* C2: with isDateSpecific true, total_amount and voucher_count are the sum and
\* the count over exactly the records whose date parses and whose month and
\* year are in the normalized month and year sets (each when non-empty).
C2_TotalsAfterFilter ==
    (Answered("sales") /\ request.sales_data # <<>> /\ FilterActive /\ IsSummary)
        => LET kept == Kept(request.sales_data, request.date_context)
           IN  /\ response.body.total_amount = AmountOver(request.sales_data, kept)
               /\ response.body.voucher_count = Cardinality(kept)

\* C2's case: a month and a year filter that keep one record, and drop one
\* with a parseable date and one with an unparseable date.
C2_Witness ==
    /\ Answered("sales") /\ FilterActive /\ IsSummary
    /\ MonthSet(request.date_context) # {}
    /\ YearSet(request.date_context) # {}
    /\ response.body.voucher_count = 1
    /\ \E i \in Indices(request.sales_data) : ~Parseable(request.sales_data[i])
    /\ \E i \in Indices(request.sales_data) :
            /\ Parseable(request.sales_data[i])
            /\ i \notin Kept(request.sales_data, request.date_context)

\* A conversion failure in the request: an amount that is not numeric, or a
\* year string of the date context that is not an integer literal.
HasConversionFailure(records, dc) ==
    \/ \E i \in Indices(records) :
            IsStr(records[i].amount) /\ ~AllDigits(records[i].amount.str)
    \/ /\ HasKey(dc, "years")
       /\ \E i \in 1..Len(dc.years) :
            IsStr(dc.years[i]) /\ ~AllDigits(dc.years[i].str)

\* C3: a numeric conversion failure (a non-numeric amount, a year string that
\* is not an integer literal) never aborts calculate_sales: the conversion's
\* error is never the error response.
C3_ConversionNeverAborts ==
    (Answered("sales")
       /\ HasConversionFailure(request.sales_data, get_date_context(request)))
        => ~(response.kind = "error" /\ response.body.error = "ValueError")

OnlyUnrecognized(months) ==
    \A i \in 1..Len(months) : IsStr(months[i]) /\ ~Recognized(months[i])

WithoutMonths(req) ==
    [req EXCEPT !.date_context =
        [f \in DOMAIN req.date_context \ {"months"} |-> req.date_context[f]]]

\* C6: with isDateSpecific true, a months list that is empty or holds only
\* unrecognized strings filters nothing by month: the response is one the same
\* request gives with months absent.
C6_UnusableMonthsFilterNothing ==
    (Answered("sales") /\ FilterActive
       /\ HasKey(request.date_context, "months")
       /\ OnlyUnrecognized(request.date_context.months))
        => response \in calculate_sales(WithoutMonths(request))

\* C6's case: a non-empty months list of unrecognized strings, and records of
\* different months that all survive.
C6_Witness ==
    /\ Answered("sales") /\ FilterActive /\ IsSummary
    /\ HasKey(request.date_context, "months")
    /\ request.date_context.months # <<>>
    /\ OnlyUnrecognized(request.date_context.months)
    /\ response.body.voucher_count >= 2
    /\ Cardinality(DOMAIN response.body.monthly_breakdown) >= 2

RECURSIVE SumField(_, _, _)
SumField(breakdown, keys, field) ==
    IF keys = {} THEN 0
    ELSE LET k == CHOOSE j \in keys : TRUE
         IN  breakdown[k][field] + SumField(breakdown, keys \ {k}, field)

MonthlyTotal(field) ==
    SumField(response.body.monthly_breakdown,
             DOMAIN response.body.monthly_breakdown, field)

\* C9: the monthly_breakdown counts sum to at most voucher_count; with the date
\* filter active they sum to voucher_count and the monthly amounts sum to
\* total_amount.
C9_MonthlySumsAgainstTotals ==
    (Answered("sales") /\ IsSummary)
        => /\ MonthlyTotal("count") <= response.body.voucher_count
           /\ FilterActive =>
                /\ MonthlyTotal("count") = response.body.voucher_count
                /\ MonthlyTotal("amount") = response.body.total_amount

\* C9's case: an active filter that leaves records of two months, from a
\* request that also holds a record with an unparseable date.
C9_Witness ==
    /\ Answered("sales") /\ IsSummary /\ FilterActive
    /\ Cardinality(DOMAIN response.body.monthly_breakdown) = 2
    /\ response.body.voucher_count = 2
    /\ \E i \in Indices(request.sales_data) : ~Parseable(request.sales_data[i])

\* C9's other case: no filter, and fewer dated records than records.
C9_WitnessStrict ==
    /\ Answered("sales") /\ IsSummary /\ ~FilterActive
    /\ MonthlyTotal("count") > 0
    /\ MonthlyTotal("count") < response.body.voucher_count

IntegersOutOfRangeOnly(months) ==
    /\ \E i \in 1..Len(months) : IsInt(months[i])
    /\ \A i \in 1..Len(months) :
            /\ IsInt(months[i]) => months[i].num \notin 1..12
            /\ IsStr(months[i]) => ~Recognized(months[i])

\* C10: a months list whose only usable entries are integers outside 1..12
\* makes the filter return no records, while a months list of unrecognized
\* strings only (and no year filter) returns every record with a parseable date.
C10_InvalidMonthsTreatedDifferently ==
    (Answered("sales") /\ request.sales_data # <<>> /\ FilterActive /\ IsSummary
       /\ HasKey(request.date_context, "months"))
        => /\ IntegersOutOfRangeOnly(request.date_context.months)
                => response.body.voucher_count = 0
           /\ (/\ request.date_context.months # <<>>
               /\ OnlyUnrecognized(request.date_context.months)
               /\ ~HasKey(request.date_context, "years"))
                => response.body.voucher_count =
                     Cardinality({i \in Indices(request.sales_data) :
                                    Parseable(request.sales_data[i])})

\* C10's case: months = [13] (or [0]) empties a request that holds records
\* with parseable dates.
C10_Witness ==
    /\ Answered("sales") /\ FilterActive /\ IsSummary
    /\ HasKey(request.date_context, "months")
    /\ IntegersOutOfRangeOnly(request.date_context.months)
    /\ ~HasKey(request.date_context, "years")
    /\ \E i \in Indices(request.sales_data) : Parseable(request.sales_data[i])
    /\ response.body.voucher_count = 0

\* The records of a list that count: all of them without an active filter,
\* the ones the date filter keeps with one.
Counted(records) ==
    IF FilterActive THEN Kept(records, request.date_context) ELSE Indices(records)

\* The records of an account among the records idx.
OfAccount(records, idx, a) ==
    {i \in idx : HasKey(records[i], "account") /\ records[i].account = a}

AccountsOf(records, idx) ==
    {records[i].account : i \in {j \in idx : HasKey(records[j], "account")}}

\* C4: customer_breakdown has at most 10 entries, in descending order of summed
\* amount; each value is the sum of the coerced amounts of the filtered records
\* of that account, and no account left out has a larger sum than one kept.
C4_TopCustomers ==
    (Answered("sales") /\ IsSummary)
        => LET cb == response.body.customer_breakdown
               records == request.sales_data
               counted == Counted(records)
               accounts == AccountsOf(records, counted)
               listed == {cb[i][1] : i \in 1..Len(cb)}
           IN  /\ Len(cb) <= 10
               /\ \A i, j \in 1..Len(cb) : i < j => cb[i][2] >= cb[j][2]
               /\ \A i, j \in 1..Len(cb) : i # j => cb[i][1] # cb[j][1]
               /\ \A i \in 1..Len(cb) :
                    /\ cb[i][1] \in accounts
                    /\ cb[i][2] = AmountOver(records, OfAccount(records, counted, cb[i][1]))
               /\ \A a \in accounts \ listed :
                    LET left_out == AmountOver(records, OfAccount(records, counted, a))
                    IN  \A i \in 1..Len(cb) : left_out <= cb[i][2]

\* C4's case: more than 10 accounts survive an active filter, 10 are listed,
\* an account is made of two records, and an account left out ties with the
\* last one kept.
C4_Witness ==
    /\ Answered("sales") /\ IsSummary /\ FilterActive
    /\ Len(response.body.customer_breakdown) = 10
    /\ LET records == request.sales_data
           counted == Counted(records)
           accounts == AccountsOf(records, counted)
       IN  /\ Cardinality(counted) < Len(records)
           /\ Cardinality(accounts) > 10
           /\ \E a \in accounts : Cardinality(OfAccount(records, counted, a)) = 2
           /\ \E a \in accounts :
                /\ \A i \in 1..10 : response.body.customer_breakdown[i][1] # a
                /\ AmountOver(records, OfAccount(records, counted, a))
                        = response.body.customer_breakdown[10][2]

---------------------------------------------------------------------------
(* Properties of calculate_profit                                          *)

Revenue == get_records(request, "revenue_data")
Expense == get_records(request, "expense_data")

\* C5: total_revenue and total_expenses are the sums of the coerced amounts of
\* the revenue and expense lists, each passed through the date filter on its
\* own (0 for a missing, empty or emptied list), net_profit is their
\* difference and revenue_entries / expense_entries are the sizes of the
\* filtered lists; without an active filter every record counts.
C5_ProfitTotals ==
    Answered("profit")
        => /\ ~FilterActive => IsSummary
           /\ IsSummary =>
                /\ response.body.total_revenue = AmountOver(Revenue, Counted(Revenue))
                /\ response.body.total_expenses = AmountOver(Expense, Counted(Expense))
                /\ response.body.net_profit
                     = AmountOver(Revenue, Counted(Revenue))
                        - AmountOver(Expense, Counted(Expense))
                /\ response.body.revenue_entries = Cardinality(Counted(Revenue))
                /\ response.body.expense_entries = Cardinality(Counted(Expense))

\* C5's case: no active filter, a revenue and an expense record with
\* unparseable dates, and a loss.
C5_Witness ==
    /\ Answered("profit") /\ IsSummary /\ ~FilterActive
    /\ \E i \in Indices(Revenue) : ~Parseable(Revenue[i])
    /\ \E i \in Indices(Expense) : ~Parseable(Expense[i])
    /\ response.body.revenue_entries = 1
    /\ response.body.expense_entries = 2
    /\ response.body.net_profit < 0

\* C5's other case: an active filter that empties the expense list and keeps
\* part of the revenue list.
C5_WitnessFiltered ==
    /\ Answered("profit") /\ IsSummary /\ FilterActive
    /\ Len(Expense) > 0 /\ response.body.expense_entries = 0
    /\ response.body.total_expenses = 0
    /\ Len(Revenue) = 2 /\ response.body.revenue_entries = 1
    /\ response.body.net_profit > 0

PeriodOf(r) == month_key(parse_date(r.date))

InPeriod(records, k) ==
    {i \in Counted(records) : Parseable(records[i]) /\ PeriodOf(records[i]) = k}

Unparseable(records) == {i \in Counted(records) : ~Parseable(records[i])}

\* C8: monthly_breakdown has one entry per calendar month that holds a counted
\* revenue or expense record with a parseable date, with the sums of the two
\* types there (0 for an absent type) and their difference; the records with
\* unparseable dates are in no entry, and are in the totals all the same.
C8_ProfitMonthlyBreakdown ==
    (Answered("profit") /\ IsSummary)
        => LET mb == response.body.monthly_breakdown
           IN  /\ DOMAIN mb
                    = {PeriodOf(Revenue[i]) :
                            i \in {j \in Counted(Revenue) : Parseable(Revenue[j])}}
                      \cup {PeriodOf(Expense[i]) :
                            i \in {j \in Counted(Expense) : Parseable(Expense[j])}}
               /\ \A k \in DOMAIN mb :
                    /\ mb[k].revenue = AmountOver(Revenue, InPeriod(Revenue, k))
                    /\ mb[k].expense = AmountOver(Expense, InPeriod(Expense, k))
                    /\ mb[k].profit = mb[k].revenue - mb[k].expense
               /\ response.body.total_revenue
                    = SumField(mb, DOMAIN mb, "revenue")
                        + AmountOver(Revenue, Unparseable(Revenue))
               /\ response.body.total_expenses
                    = SumField(mb, DOMAIN mb, "expense")
                        + AmountOver(Expense, Unparseable(Expense))

\* C8's case: a month with revenue only, a month with expense only, and
\* records with unparseable dates that are in the totals alone.
C8_Witness ==
    /\ Answered("profit") /\ IsSummary
    /\ \E k \in DOMAIN response.body.monthly_breakdown :
            /\ response.body.monthly_breakdown[k].revenue > 0
            /\ response.body.monthly_breakdown[k].expense = 0
    /\ \E k \in DOMAIN response.body.monthly_breakdown :
            /\ response.body.monthly_breakdown[k].revenue = 0
            /\ response.body.monthly_breakdown[k].expense > 0
    /\ Unparseable(Revenue) # {}
    /\ response.body.total_revenue
            > SumField(response.body.monthly_breakdown,
                       DOMAIN response.body.monthly_breakdown, "revenue")

---------------------------------------------------------------------------
(* Properties of parse_date                                                *)

\* C7: for every valid day, month abbreviation and two-digit year YY,
\* parse_date("DD-Mon-YY") is the date with year 2000+YY, that month and that
\* day; and a parsed date formatted as "DD-Mon-YY" and parsed again is the
\* same calendar date.
C7_TwoDigitYearAndRoundTrip ==
    (request.op = "parse_date" /\ response # NoResponse)
        => /\ \A d \in SampleDays, m \in 1..12, yy \in SampleYY :
                (request.date_str = DMY(d, m, yy) /\ d <= DaysInMonth(2000 + yy, m))
                    => response = Timestamp(2000 + yy, m, d)
           /\ request.origin # None => response = request.origin

=============================================================================
